---- MODULE Spec2Model ----
(***************************************************************************)
(* Model of pandapower/diagnostic.py: the diagnostic() orchestrator, its   *)
(* 14 check functions and the three "perturb, re-solve, restore" probes.   *)
(*                                                                         *)
(* Units.  The source works in floats; the model works in integers:        *)
(*   resistances / reactances : milli-ohm        (0.001 ohm  = 1)          *)
(*   per-unit impedances      : milli-pu         (0.01 pu    = 10)         *)
(*   lengths                  : metres           (0.5 km     = 500)        *)
(*   scaling factors          : 1/1000           (0.001      = 1)          *)
(*   voltages kV, powers MVA/MW, percentages     : as in the source        *)
(* A pandas table is a function from its index (row identifiers) to rows,  *)
(* iterated in ascending index order; a list of identifiers without        *)
(* duplicates is represented by the set of its elements.                   *)
(***************************************************************************)
EXTENDS Integers, Sequences, FiniteSets, TLC

VARIABLES
    net,            \* the pandapowerNet: a record of input tables
    i,              \* position of the orchestrator loop in diag_functions
    pc,             \* position inside the running check
    loc,            \* local variables of the running check
    diag_results,   \* check name -> payload
    diag_errors,    \* check name -> exception
    returned,       \* value handed back by diagnostic()
    solves,         \* outcomes of the solver calls made by the running check
    ncalls,         \* solver calls made in the current diagnostic() run
    invoked,        \* names of the checks invoked in the current run, in order
    net0,           \* the model as it was when diagnostic() was called
    entry,          \* the model as it was when the running check was entered
    memo,           \* the points at which a deterministic solver was evaluated
    det,            \* TRUE: run is a function of (model, options)
    run_no,         \* number of the current diagnostic() call
    raised,         \* exception with which the last finished check ended, or ""
    unexpected,     \* something other than non-convergence was raised in this run
    prev,           \* results and errors of the previous diagnostic() call
    solo            \* name of the check invoked on its own, or "" in a pipeline

vars == <<net, i, pc, loc, diag_results, diag_errors, returned, solves, ncalls,
          invoked, net0, entry, memo, det, run_no, raised, unexpected, prev,
          solo>>

(***************************************************************************)
(* Bounds of the model.                                                    *)
(***************************************************************************)
\* at most this many element kinds carry an implausible row initially
MaxImplausible == 2
\* rows of the load table
NumLoads == 2
\* at most this many references of a model dangle
MaxDangling == 2

(***************************************************************************)
(* Parameters of diagnostic() (defaults of its signature).                 *)
(***************************************************************************)
overload_scaling_factor == 1
min_r_ohm == 1
min_x_ohm == 1
max_r_ohm == 100000
max_x_ohm == 100000
numba_tolerance == 1
\* nom_voltage_tolerance = 0.3, in tenths
nom_voltage_tolerance == 3

expected_exceptions ==
    {"LoadflowNotConverged", "OPFNotConverged", "ControllerNotConverged",
     "NetCalculationNotConverged"}

(***************************************************************************)
(* Generic helpers.                                                        *)
(***************************************************************************)
Abs(x) == IF x < 0 THEN -x ELSE x

fmax(a, b) == IF a >= b THEN a ELSE b

SetMax(S) == CHOOSE m \in S : \A y \in S : y <= m

EmptyTable == [x \in {} |-> 0]

\* f with f[k] set to v (k may be new)
Put(f, k, v) == [x \in (DOMAIN f) \cup {k} |-> IF x = k THEN v ELSE f[x]]

\* pandas: assign a scalar to a column
SetColumn(table, col, v) == [r \in DOMAIN table |-> [table[r] EXCEPT ![col] = v]]

\* pandas: assign a Series (aligned on the index) to a column
AssignColumn(table, col, series) ==
    [r \in DOMAIN table |->
        IF r \in DOMAIN series THEN [table[r] EXCEPT ![col] = series[r]]
        ELSE table[r]]

\* copy.deepcopy(table.col)
Column(table, col) == [r \in DOMAIN table |-> table[r][col]]

\* index of a new row (pandapower.create: max index + 1, 0 for an empty table)
FreeId(table) == IF DOMAIN table = {} THEN 0 ELSE SetMax(DOMAIN table) + 1

\* table.loc[idx, "in_service"] = False
OutOfService(table, idx) ==
    [r \in DOMAIN table |->
        IF r \in idx THEN [table[r] EXCEPT !.in_service = FALSE] ELSE table[r]]

(***************************************************************************)
(* The initial network models.                                             *)
(*   bus 0 (110 kV) -- trafo 0 -- bus 1 (20 kV) -- line 0 -- bus 2 (20 kV) *)
(*   trafo3w 0 joins buses 0, 1 and 3 (10 kV); ext_grid at bus 0.          *)
(* K is the set of element kinds whose row has an implausible impedance.   *)
(***************************************************************************)
Kinds == {"line", "xward", "impedance", "trafo", "trafo3w", "vsc", "line_dc"}

InitialNet(K) ==
    [bus |-> [b \in 0..3 |->
                [vn_kv |-> CASE b = 0 -> 110 [] b = 3 -> 10 [] OTHER -> 20,
                 in_service |-> TRUE]],
     ext_grid |-> [r \in {0} |-> [bus |-> 0, vm_pu |-> 1, in_service |-> TRUE]],
     gen  |-> [r \in {0} |-> [bus |-> 1, p_mw |-> 5, scaling |-> 1000,
                              slack |-> FALSE, in_service |-> TRUE]],
     sgen |-> [r \in {0} |-> [bus |-> 2, p_mw |-> 2, scaling |-> 800,
                              in_service |-> TRUE]],
     load |-> [r \in 0..(NumLoads - 1) |->
                [bus |-> 2, p_mw |-> 3, scaling |-> 1000 - 100 * r,
                 in_service |-> TRUE]],
     switch |-> [r \in {0} |-> [bus |-> 1, element |-> 0, et |-> "l",
                                closed |-> FALSE]],
     line |-> [r \in {0} |->
                [from_bus |-> 1, to_bus |-> 2,
                 r_ohm_per_km |-> IF "line" \in K THEN 0 ELSE 100,
                 x_ohm_per_km |-> 100, length_m |-> 1000, in_service |-> TRUE,
                 std_type |-> "NAYY"]],
     std_types |-> [line |-> [NAYY |-> [r_ohm_per_km |-> 100,
                                        x_ohm_per_km |-> 100]]],
     impedance |-> [r \in {0} |->
                [from_bus |-> 1, to_bus |-> 2,
                 rft_pu |-> IF "impedance" \in K THEN 0 ELSE 10, xft_pu |-> 10,
                 rtf_pu |-> 10, xtf_pu |-> 10, sn_mva |-> 100,
                 in_service |-> TRUE]],
     xward |-> [r \in {0} |->
                [bus |-> 2, r_ohm |-> IF "xward" \in K THEN 0 ELSE 1000,
                 x_ohm |-> 1000, in_service |-> TRUE]],
     ward |-> EmptyTable,
     trafo |-> [r \in {0} |->
                [hv_bus |-> 0, lv_bus |-> 1,
                 vk_percent |-> IF "trafo" \in K THEN 0 ELSE 10,
                 vn_hv_kv |-> 110, vn_lv_kv |-> 20, sn_mva |-> 25,
                 in_service |-> TRUE]],
     trafo3w |-> [r \in {0} |->
                [hv_bus |-> 0, mv_bus |-> 1, lv_bus |-> 3,
                 vk_hv_percent |-> IF "trafo3w" \in K THEN 0 ELSE 10,
                 vk_mv_percent |-> 10, vk_lv_percent |-> 10,
                 vn_hv_kv |-> 110, vn_mv_kv |-> 20, vn_lv_kv |-> 10,
                 sn_hv_mva |-> 40, sn_mv_mva |-> 25, sn_lv_mva |-> 25,
                 in_service |-> TRUE]],
     vsc |-> [r \in {0} |->
                [from_bus |-> 1, to_bus |-> 3,
                 r_ohm |-> IF "vsc" \in K THEN 0 ELSE 100, x_ohm |-> 100,
                 r_dc_ohm |-> 100, in_service |-> TRUE]],
     line_dc |-> [r \in {0} |->
                [from_bus |-> 2, to_bus |-> 3,
                 r_ohm_per_km |-> IF "line_dc" \in K THEN 0 ELSE 100,
                 length_m |-> 200, r_dc_ohm |-> 100, in_service |-> TRUE]]]

\* the total resistance of line 0 (1 km long) sits exactly on min_r_ohm
LineAtMinimum(n) == [n EXCEPT !.line[0].r_ohm_per_km = min_r_ohm]

\* Models with dangling references, for the referential-integrity scan: the
\* fields of D name an identifier that is no bus (and no line or transformer)
References ==
    {<<"ext_grid", 0, "bus">>, <<"load", 0, "bus">>, <<"gen", 0, "bus">>,
     <<"sgen", 0, "bus">>, <<"trafo", 0, "lv_bus">>, <<"trafo", 0, "hv_bus">>,
     <<"trafo3w", 0, "lv_bus">>, <<"trafo3w", 0, "mv_bus">>,
     <<"trafo3w", 0, "hv_bus">>, <<"line", 0, "from_bus">>,
     <<"line", 0, "to_bus">>, <<"switch", 0, "bus">>, <<"switch", 0, "element">>}

Dangling(n, D) ==
    [t \in DOMAIN n |->
        IF t \in {d[1] : d \in D}
        THEN [r \in DOMAIN n[t] |->
                [f \in DOMAIN n[t][r] |->
                    IF <<t, r, f>> \in D THEN Cardinality(DOMAIN n.bus) + 5
                    ELSE n[t][r][f]]]
        ELSE n[t]]

ScanNets ==
    {Dangling([InitialNet({}) EXCEPT !.switch[0].et = et], D) :
        et \in {"l", "t", "t3", "b"},
        D \in {S \in SUBSET References : Cardinality(S) <= MaxDangling}}

\* Models with islands, for the topology analysis: the rows of Off are out of
\* service, the line switch is closed or open, the generator is slack or not
Switchable ==
    {<<"line", 0>>, <<"impedance", 0>>, <<"trafo", 0>>, <<"trafo3w", 0>>,
     <<"bus", 2>>, <<"bus", 3>>, <<"ext_grid", 0>>, <<"load", 0>>}

TopologyNet(Off, closed, slack) ==
    LET n == [InitialNet({}) EXCEPT !.switch[0].closed = closed,
                                    !.gen[0].slack = slack]
    IN [t \in DOMAIN n |->
          IF t \in {d[1] : d \in Off}
          THEN [r \in DOMAIN n[t] |->
                  IF <<t, r>> \in Off THEN [n[t][r] EXCEPT !.in_service = FALSE]
                  ELSE n[t][r]]
          ELSE n[t]]

TopologyNets ==
    {TopologyNet(Off, closed, slack) :
        Off \in SUBSET Switchable, closed \in BOOLEAN, slack \in BOOLEAN}

\* Models with switches at the three terminals of transformer 0 (2-winding and
\* 3-winding), for the isolation scan: element types ets, positions closed
IsolationNet(ets, closed, trafo_is, trafo3w_is) ==
    [InitialNet({}) EXCEPT
        !.switch = [w \in 0..2 |->
                      [bus |-> <<0, 1, 3>>[w + 1], element |-> 0,
                       et |-> ets[w + 1], closed |-> closed[w + 1]]],
        !.trafo[0].in_service = trafo_is,
        !.trafo3w[0].in_service = trafo3w_is]

IsolationNets ==
    {IsolationNet(ets, closed, trafo_is, trafo3w_is) :
        ets \in [1..3 -> {"t", "t3"}], closed \in [1..3 -> BOOLEAN],
        trafo_is \in BOOLEAN, trafo3w_is \in BOOLEAN}

\* Models with a bus-bus switch from bus 1 (20 kV), for the cross-voltage scan
CrossVoltageNets ==
    {[InitialNet({}) EXCEPT !.switch[0] = [bus |-> 1, element |-> b, et |-> "b",
                                           closed |-> closed]] :
        b \in {0, 2, 3}, closed \in BOOLEAN}

\* Models with two generators and two external grids, at one bus or at two
SourceNets ==
    {[InitialNet({}) EXCEPT
        !.gen = [r \in {0, 1} |-> [InitialNet({}).gen[0] EXCEPT !.bus = g[r + 1]]],
        !.ext_grid = [r \in {0, 1} |->
                        [InitialNet({}).ext_grid[0] EXCEPT !.bus = x[r + 1]]]] :
        g \in [1..2 -> {1, 2}], x \in [1..2 -> {0, 3}]}

\* Models whose transformers carry nameplate voltages (kV) on, near and off the
\* nominal voltages of their buses (110, 20 and 10 kV)
NameplateNets ==
    {[InitialNet({}) EXCEPT !.trafo[0].vn_hv_kv = v[1], !.trafo[0].vn_lv_kv = v[2],
                            !.trafo3w[0].vn_hv_kv = w[1],
                            !.trafo3w[0].vn_mv_kv = w[2],
                            !.trafo3w[0].vn_lv_kv = w[3]] :
        v \in [1..2 -> {110, 20, 26, 60}], w \in [1..3 -> {110, 20, 10}]}

InitialNets ==
    {InitialNet(K) : K \in {S \in SUBSET Kinds : Cardinality(S) <= MaxImplausible}}
    \cup {LineAtMinimum(InitialNet({}))}

\* the tables the probes write to
ProbeTables == {"load", "gen", "sgen", "switch", "line", "impedance", "vsc",
                "line_dc", "ward", "xward", "trafo", "trafo3w"}

(***************************************************************************)
(* implausible_impedance_values: detection (no solver involved).           *)
(* a / b >= c with b > 0 is written a >= c * b.                            *)
(***************************************************************************)
implausible_line(n) ==
    {r \in DOMAIN n.line :
        LET e == n.line[r] IN
        /\ \/ e.r_ohm_per_km * e.length_m >= max_r_ohm * 1000
           \/ e.r_ohm_per_km * e.length_m <= min_r_ohm * 1000
           \/ e.x_ohm_per_km * e.length_m >= max_x_ohm * 1000
           \/ e.x_ohm_per_km * e.length_m <= min_x_ohm * 1000
        /\ e.in_service}

implausible_xward(n) ==
    {r \in DOMAIN n.xward :
        LET e == n.xward[r] IN
        /\ \/ Abs(e.r_ohm) >= max_r_ohm
           \/ Abs(e.r_ohm) <= min_r_ohm
           \/ Abs(e.x_ohm) >= max_x_ohm
           \/ Abs(e.x_ohm) <= min_x_ohm
        /\ e.in_service}

\* zb_ohm = vn_kv^2 / sn_mva; |z_pu| >= max / zb  <=>  |z_pu| * vn_kv^2 >= max * sn_mva
implausible_impedance(n) ==
    {r \in DOMAIN n.impedance :
        LET e == n.impedance[r]
            vf2 == n.bus[e.from_bus].vn_kv * n.bus[e.from_bus].vn_kv
            vt2 == n.bus[e.to_bus].vn_kv * n.bus[e.to_bus].vn_kv
        IN
        /\ \/ Abs(e.rft_pu) * vf2 >= max_r_ohm * e.sn_mva
           \/ Abs(e.rft_pu) * vf2 <= min_r_ohm * e.sn_mva
           \/ Abs(e.xft_pu) * vf2 >= max_x_ohm * e.sn_mva
           \/ Abs(e.xft_pu) * vf2 <= min_x_ohm * e.sn_mva
           \/ Abs(e.rtf_pu) * vt2 >= max_r_ohm * e.sn_mva
           \/ Abs(e.rtf_pu) * vt2 <= min_r_ohm * e.sn_mva
           \/ Abs(e.xtf_pu) * vt2 >= max_x_ohm * e.sn_mva
           \/ Abs(e.xtf_pu) * vt2 <= min_x_ohm * e.sn_mva
        /\ e.in_service}

\* vk_percent / 100 * vn_kv^2 / sn_mva in ohm, times 1000 in milli-ohm
implausible_trafo(n) ==
    {r \in DOMAIN n.trafo :
        LET e == n.trafo[r] IN
        /\ \/ e.vk_percent * e.vn_hv_kv * e.vn_hv_kv * 10 >= max_x_ohm * e.sn_mva
           \/ e.vk_percent * e.vn_lv_kv * e.vn_lv_kv * 10 <= min_x_ohm * e.sn_mva
        /\ e.in_service}

implausible_trafo3w(n) ==
    {r \in DOMAIN n.trafo3w :
        LET e == n.trafo3w[r]
            hv2 == e.vn_hv_kv * e.vn_hv_kv
            mv2 == e.vn_mv_kv * e.vn_mv_kv
            lv2 == e.vn_lv_kv * e.vn_lv_kv
        IN
        /\ \/ e.vk_hv_percent * hv2 * 10 >= max_x_ohm * e.sn_hv_mva
           \/ e.vk_hv_percent * mv2 * 10 <= min_x_ohm * e.sn_hv_mva
           \/ e.vk_mv_percent * mv2 * 10 >= max_x_ohm * e.sn_mv_mva
           \/ e.vk_mv_percent * lv2 * 10 <= min_x_ohm * e.sn_mv_mva
           \/ e.vk_lv_percent * hv2 * 10 >= max_x_ohm * e.sn_lv_mva
           \/ e.vk_lv_percent * lv2 * 10 <= min_x_ohm * e.sn_lv_mva
        /\ e.in_service}

implausible_vsc(n) ==
    {r \in DOMAIN n.vsc :
        LET e == n.vsc[r] IN
        /\ \/ e.r_ohm <= min_r_ohm
           \/ e.x_ohm <= min_x_ohm
           \/ e.r_dc_ohm <= min_r_ohm
        /\ e.in_service}

implausible_line_dc(n) ==
    {r \in DOMAIN n.line_dc :
        LET e == n.line_dc[r] IN
        /\ e.r_ohm_per_km * e.length_m <= min_r_ohm * 1000
        /\ e.in_service}

\* the keys in the order in which the source inserts them into the dict
KeyOrder == <<"line", "xward", "impedance", "trafo", "trafo3w", "vsc", "line_dc">>

Qualifying(n, key) ==
    CASE key = "line"      -> implausible_line(n)
      [] key = "xward"     -> implausible_xward(n)
      [] key = "impedance" -> implausible_impedance(n)
      [] key = "trafo"     -> implausible_trafo(n)
      [] key = "trafo3w"   -> implausible_trafo3w(n)
      [] key = "vsc"       -> implausible_vsc(n)
      [] key = "line_dc"   -> implausible_line_dc(n)

\* the dict implausible_elements: only kinds with at least one element
implausible_elements(n) ==
    [key \in {k \in Kinds : Qualifying(n, k) # {}} |-> Qualifying(n, key)]

(***************************************************************************)
(* What a check function hands back: None, or a payload.                   *)
(***************************************************************************)
None == [none |-> TRUE]

Value(v) == [none |-> FALSE, value |-> v]

\* "if check_results: return check_results" for a set-like payload
IfAny(S) == IF S = {} THEN None ELSE Value(S)

(***************************************************************************)
(* Static checks.                                                          *)
(***************************************************************************)
element_bus_names ==
    [ext_grid |-> {"bus"}, load |-> {"bus"}, gen |-> {"bus"}, sgen |-> {"bus"},
     trafo |-> {"lv_bus", "hv_bus"}, trafo3w |-> {"lv_bus", "mv_bus", "hv_bus"},
     switch |-> {"bus", "element"}, line |-> {"from_bus", "to_bus"}]

\* mutant: the element of a line or transformer switch is looked up as a bus
missing_bus_indices_no_exemption(n) ==
    IfAny({t \in UNION {{<<element, r, bus_name, n[element][r][bus_name]>> :
                            r \in DOMAIN n[element],
                            bus_name \in element_bus_names[element]} :
                        element \in DOMAIN element_bus_names} :
            t[4] \notin DOMAIN n.bus})

\* tuples (element, row, bus_name, value) of references to buses that do not exist
missing_bus_indices(n) ==
    IfAny({t \in UNION {{<<element, r, bus_name, n[element][r][bus_name]>> :
                            r \in DOMAIN n[element],
                            bus_name \in element_bus_names[element]} :
                        element \in DOMAIN element_bus_names} :
            /\ t[4] \notin DOMAIN n.bus
            /\ ~ (/\ t[1] = "switch"
                  /\ t[3] = "element"
                  /\ n.switch[t[2]].et \in {"l", "t", "t3"})})

\* different_voltage_levels_connected: lines and bus-bus switches
inconsistent_lines(n) ==
    {r \in DOMAIN n.line :
        n.bus[n.line[r].from_bus].vn_kv # n.bus[n.line[r].to_bus].vn_kv}

inconsistent_switches(n) ==
    {r \in {w \in DOMAIN n.switch : n.switch[w].et = "b"} :
        n.bus[n.switch[r].bus].vn_kv # n.bus[n.switch[r].element].vn_kv}

different_voltage_levels_connected(n) ==
    LET check_results ==
            [k \in {x \in {"lines", "switches"} :
                      IF x = "lines" THEN inconsistent_lines(n) # {}
                      ELSE inconsistent_switches(n) # {}} |->
                IF k = "lines" THEN inconsistent_lines(n)
                ELSE inconsistent_switches(n)]
    IN IF DOMAIN check_results = {} THEN None ELSE Value(check_results)

\* no_ext_grid
no_ext_grid(n) ==
    IF Cardinality({r \in DOMAIN n.ext_grid : n.ext_grid[r].in_service})
       + Cardinality({r \in DOMAIN n.gen :
                        n.gen[r].slack /\ n.gen[r].in_service}) = 0
    THEN Value(TRUE) ELSE None

\* multiple_voltage_controlling_elements_per_bus
buses_with_mult_ext_grids(n) ==
    {b \in {n.ext_grid[r].bus : r \in DOMAIN n.ext_grid} :
        Cardinality({r \in DOMAIN n.ext_grid : n.ext_grid[r].bus = b}) > 1}

buses_with_gens_and_ext_grids(n) ==
    {n.ext_grid[r].bus : r \in DOMAIN n.ext_grid}
        \cap {n.gen[r].bus : r \in DOMAIN n.gen}

multiple_voltage_controlling_elements_per_bus(n) ==
    LET check_results ==
            [k \in {x \in {"buses_with_mult_ext_grids",
                           "buses_with_gens_and_ext_grids"} :
                      IF x = "buses_with_mult_ext_grids"
                      THEN buses_with_mult_ext_grids(n) # {}
                      ELSE buses_with_gens_and_ext_grids(n) # {}} |->
                IF k = "buses_with_mult_ext_grids"
                THEN buses_with_mult_ext_grids(n)
                ELSE buses_with_gens_and_ext_grids(n)]
    IN IF DOMAIN check_results = {} THEN None ELSE Value(check_results)

\* wrong_reference_system
wrong_reference_system(n) ==
    LET neg(t) == {r \in DOMAIN n[t] : n[t][r].p_mw < 0}
        key(t) == CASE t = "load" -> "loads" [] t = "gen" -> "gens"
                    [] t = "sgen" -> "sgens"
        check_results ==
            {<<key(t), neg(t)>> : t \in {x \in {"load", "gen", "sgen"} : neg(x) # {}}}
    IN IfAny(check_results)

\* parallel_switches: the groups of switches that share bus, element and et
parallel_switches(n) ==
    IfAny({g \in {{w \in DOMAIN n.switch :
                     /\ n.switch[w].bus = n.switch[r].bus
                     /\ n.switch[w].element = n.switch[r].element
                     /\ n.switch[w].et = n.switch[r].et} : r \in DOMAIN n.switch} :
            Cardinality(g) > 1})

(***************************************************************************)
(* nominal_voltages_dont_match.  abs(1 - t / b) > tol with b > 0 is        *)
(* written |b - t| * 10 > tol * b.                                         *)
(***************************************************************************)
\* numpy sort of a short array
Sorted(s) ==
    CHOOSE t \in [1..Len(s) -> {s[k] : k \in 1..Len(s)}] :
        /\ \A k \in 1..(Len(s) - 1) : t[k] <= t[k + 1]
        /\ \A v \in {s[k] : k \in 1..Len(s)} :
              Cardinality({k \in 1..Len(s) : t[k] = v})
                  = Cardinality({k \in 1..Len(s) : s[k] = v})

bus_violation(vn_kv, bus_vn_kv) ==
    Abs(bus_vn_kv - vn_kv) * 10 > nom_voltage_tolerance * bus_vn_kv

\* mutant: the sorted comparison alone decides, whatever the sides say
connectors_swapped_sorted_only(trafo_voltages, bus_voltages) ==
    LET tv == Sorted(trafo_voltages)
        bv == Sorted(bus_voltages)
    IN \A k \in 1..Len(bv) :
           Abs(tv[k] - bv[k]) * 10 < nom_voltage_tolerance * bv[k]

\* classification of one transformer: "swapped", or the set of violating sides
connectors_swapped(trafo_voltages, bus_voltages) ==
    /\ \A k \in 1..Len(bus_voltages) :
          bus_violation(trafo_voltages[k], bus_voltages[k])
    /\ LET tv == Sorted(trafo_voltages)
           bv == Sorted(bus_voltages)
       IN \A k \in 1..Len(bv) :
              Abs(tv[k] - bv[k]) * 10 < nom_voltage_tolerance * bv[k]

trafo_sides(n, r) ==
    LET e == n.trafo[r] IN
    [trafo_voltages |-> <<e.vn_hv_kv, e.vn_lv_kv>>,
     bus_voltages |-> <<n.bus[e.hv_bus].vn_kv, n.bus[e.lv_bus].vn_kv>>,
     names |-> <<"hv_bus", "lv_bus">>]

trafo3w_sides(n, r) ==
    LET e == n.trafo3w[r] IN
    [trafo_voltages |-> <<e.vn_hv_kv, e.vn_mv_kv, e.vn_lv_kv>>,
     bus_voltages |-> <<n.bus[e.hv_bus].vn_kv, n.bus[e.mv_bus].vn_kv,
                        n.bus[e.lv_bus].vn_kv>>,
     names |-> <<"hv_bus", "mv_bus", "lv_bus">>]

\* the lists of one table: side name or swapped-key -> transformer ids
voltage_lists(rows, sides(_), swapped_key) ==
    LET swapped == {r \in rows : connectors_swapped(sides(r).trafo_voltages,
                                                    sides(r).bus_voltages)}
        side(name) ==
            {r \in rows \ swapped :
                \E k \in 1..Len(sides(r).names) :
                    /\ sides(r).names[k] = name
                    /\ bus_violation(sides(r).trafo_voltages[k],
                                     sides(r).bus_voltages[k])}
        list(key) == IF key = swapped_key THEN swapped ELSE side(key)
    IN [key \in {k \in {"hv_bus", "mv_bus", "lv_bus", swapped_key} :
                    list(k) # {}} |-> list(key)]

nominal_voltages_dont_match(n) ==
    LET trafo_results ==
            voltage_lists(DOMAIN n.trafo, LAMBDA r : trafo_sides(n, r),
                          "hv_lv_swapped")
        trafo3w_results ==
            voltage_lists(DOMAIN n.trafo3w, LAMBDA r : trafo3w_sides(n, r),
                          "connectors_swapped_3w")
        results ==
            [k \in {x \in {"trafo", "trafo3w"} :
                      IF x = "trafo" THEN DOMAIN trafo_results # {}
                      ELSE DOMAIN trafo3w_results # {}} |->
                IF k = "trafo" THEN trafo_results ELSE trafo3w_results]
    IN IF DOMAIN results = {} THEN None ELSE Value(results)

(***************************************************************************)
(* invalid_values.  Every numeric column of the model holds a number and   *)
(* every boolean column a boolean (NaN and wrongly typed cells are outside *)
(* the value space of the model), so check_number and check_boolean never  *)
(* report; the columns are those of important_values that the model has.   *)
(***************************************************************************)
important_values ==
    {<<"bus", "vn_kv", ">0">>,
     <<"line", "from_bus", "positive_integer">>,
     <<"line", "to_bus", "positive_integer">>,
     <<"line", "length_m", ">0">>, <<"line", "r_ohm_per_km", ">=0">>,
     <<"line", "x_ohm_per_km", ">=0">>,
     <<"trafo", "hv_bus", "positive_integer">>,
     <<"trafo", "lv_bus", "positive_integer">>,
     <<"trafo", "sn_mva", ">0">>, <<"trafo", "vn_hv_kv", ">0">>,
     <<"trafo", "vn_lv_kv", ">0">>, <<"trafo", "vk_percent", ">0">>,
     <<"trafo", "vk_percent", "<15">>,
     <<"trafo3w", "hv_bus", "positive_integer">>,
     <<"trafo3w", "mv_bus", "positive_integer">>,
     <<"trafo3w", "lv_bus", "positive_integer">>,
     <<"trafo3w", "sn_hv_mva", ">0">>, <<"trafo3w", "sn_mv_mva", ">0">>,
     <<"trafo3w", "sn_lv_mva", ">0">>, <<"trafo3w", "vn_hv_kv", ">0">>,
     <<"trafo3w", "vn_mv_kv", ">0">>, <<"trafo3w", "vn_lv_kv", ">0">>,
     <<"trafo3w", "vk_hv_percent", ">0">>, <<"trafo3w", "vk_mv_percent", ">0">>,
     <<"trafo3w", "vk_lv_percent", ">0">>, <<"trafo3w", "vk_hv_percent", "<15">>,
     <<"trafo3w", "vk_mv_percent", "<15">>, <<"trafo3w", "vk_lv_percent", "<15">>,
     <<"load", "bus", "positive_integer">>, <<"load", "scaling", ">=0">>,
     <<"sgen", "bus", "positive_integer">>, <<"sgen", "scaling", ">=0">>,
     <<"gen", "bus", "positive_integer">>, <<"gen", "scaling", ">=0">>,
     <<"ext_grid", "bus", "positive_integer">>, <<"ext_grid", "vm_pu", ">0">>,
     <<"switch", "bus", "positive_integer">>,
     <<"switch", "element", "positive_integer">>,
     <<"switch", "et", "switch_type">>}

\* TRUE when the type check reports the cell
type_checks(restriction, v) ==
    CASE restriction = ">0"  -> v <= 0
      [] restriction = ">=0" -> v < 0
      [] restriction = "<15" -> v >= 15
      [] restriction = "positive_integer" -> ~ (v >= 0)
      [] restriction = "switch_type" -> v \notin {"b", "l", "t", "t3"}

invalid_values(n) ==
    IfAny({t \in UNION {{<<iv[1], r, iv[2], n[iv[1]][r][iv[2]], iv[3]>> :
                            r \in DOMAIN n[iv[1]]} : iv \in important_values} :
            type_checks(t[5], t[4])})

(***************************************************************************)
(* deviation_from_std_type.  For a row with several deviating parameters   *)
(* the source keeps the last one in the order of the type's parameters.    *)
(***************************************************************************)
std_type_params == <<"r_ohm_per_km", "x_ohm_per_km">>

deviation_from_std_type(n) ==
    LET lib(key) == n.std_types[key]
        deviating(key, r) ==
            {k \in 1..Len(std_type_params) :
                n[key][r][std_type_params[k]]
                    # lib(key)[n[key][r].std_type][std_type_params[k]]}
        entry_of(key, r) ==
            IF n[key][r].std_type \in DOMAIN lib(key)
            THEN IF deviating(key, r) = {} THEN <<>>
                 ELSE <<[param |-> std_type_params[SetMax(deviating(key, r))],
                         std_type_in_lib |-> TRUE]>>
            ELSE <<[std_type_in_lib |-> FALSE]>>
        check_results ==
            UNION {{<<key, r, entry_of(key, r)[1]>> :
                        r \in {x \in DOMAIN n[key] : entry_of(key, x) # <<>>}} :
                   key \in DOMAIN n.std_types}
    IN IfAny(check_results)

(***************************************************************************)
(* disconnected_elements.  The connectivity graph (pandapower.topology)    *)
(* and get_connected_elements (pandapower.toolbox) are not part of the     *)
(* sources at hand; they follow the design description: nodes are the      *)
(* buses, edges the in-service branches and closed switches.               *)
(***************************************************************************)
open_switch_at(n, et, element) ==
    \E w \in DOMAIN n.switch :
        /\ n.switch[w].et = et
        /\ n.switch[w].element = element
        /\ ~ n.switch[w].closed

create_nxgraph(n) ==
    {{n.line[r].from_bus, n.line[r].to_bus} :
        r \in {x \in DOMAIN n.line :
                 n.line[x].in_service /\ ~ open_switch_at(n, "l", x)}}
    \cup {{n.impedance[r].from_bus, n.impedance[r].to_bus} :
        r \in {x \in DOMAIN n.impedance : n.impedance[x].in_service}}
    \cup {{n.trafo[r].hv_bus, n.trafo[r].lv_bus} :
        r \in {x \in DOMAIN n.trafo :
                 n.trafo[x].in_service /\ ~ open_switch_at(n, "t", x)}}
    \cup UNION {{{n.trafo3w[r].hv_bus, n.trafo3w[r].mv_bus},
                 {n.trafo3w[r].hv_bus, n.trafo3w[r].lv_bus}} :
        r \in {x \in DOMAIN n.trafo3w :
                 n.trafo3w[x].in_service /\ ~ open_switch_at(n, "t3", x)}}
    \cup {{n.switch[r].bus, n.switch[r].element} :
        r \in {x \in DOMAIN n.switch :
                 n.switch[x].et = "b" /\ n.switch[x].closed}}

RECURSIVE Reach(_, _)
Reach(mg, S) ==
    LET T == S \cup {b \in UNION mg : \E e \in mg : b \in e /\ e \cap S # {}}
    IN IF T = S THEN S ELSE Reach(mg, T)

connected_components(n) ==
    {Reach(create_nxgraph(n), {b}) : b \in DOMAIN n.bus}

\* elements of a branch table attached to one of the buses, in service and
\* not cut off from that bus by an open switch
get_connected_elements(n, element, buses) ==
    LET et == CASE element = "line" -> "l" [] element = "trafo" -> "t"
                [] element = "trafo3w" -> "t3"
        ends(r) ==
            CASE element = "line" -> {n.line[r].from_bus, n.line[r].to_bus}
              [] element = "trafo" -> {n.trafo[r].hv_bus, n.trafo[r].lv_bus}
              [] element = "trafo3w" ->
                    {n.trafo3w[r].hv_bus, n.trafo3w[r].mv_bus, n.trafo3w[r].lv_bus}
    IN {r \in DOMAIN n[element] :
            /\ n[element][r].in_service
            /\ \E b \in ends(r) \cap buses :
                  ~ \E w \in DOMAIN n.switch :
                        /\ n.switch[w].et = et
                        /\ n.switch[w].element = r
                        /\ n.switch[w].bus = b
                        /\ ~ n.switch[w].closed}

\* mutant: slack generators do not count as reference sources
reference_buses_ext_grid_only(n) ==
    {n.ext_grid[r].bus : r \in {x \in DOMAIN n.ext_grid : n.ext_grid[x].in_service}}

reference_buses(n) ==
    {n.ext_grid[r].bus : r \in {x \in DOMAIN n.ext_grid : n.ext_grid[x].in_service}}
    \cup {n.gen[r].bus :
            r \in {x \in DOMAIN n.gen : n.gen[x].slack /\ n.gen[x].in_service}}

section_dict(n, section) ==
    LET section_buses == {b \in (DOMAIN n.bus) \cap section : n.bus[b].in_service}
        attached(t) == {r \in DOMAIN n[t] :
                          n[t][r].bus \in section /\ n[t][r].in_service}
        category(k) ==
            CASE k = "buses"    -> section_buses
              [] k = "switches" ->
                    {w \in DOMAIN n.switch : n.switch[w].bus \in section_buses}
              [] k = "lines"    -> get_connected_elements(n, "line", section_buses)
              [] k = "trafos"   -> get_connected_elements(n, "trafo", section_buses)
              [] k = "trafos3w" -> get_connected_elements(n, "trafo3w", section_buses)
              [] k = "loads"    -> attached("load")
              [] k = "gens"     -> attached("gen")
              [] k = "sgens"    -> attached("sgen")
    IN [k \in {x \in {"buses", "switches", "lines", "trafos", "trafos3w",
                      "loads", "gens", "sgens"} : category(x) # {}} |->
            category(k)]

disconnected_sections(n) ==
    {section_dict(n, section) :
        section \in {c \in connected_components(n) :
                        /\ c \cap reference_buses(n) = {}
                        /\ \E b \in c : n.bus[b].in_service
                        /\ DOMAIN section_dict(n, c) # {}}}

open_trafo_switches(n) ==
    {w \in DOMAIN n.switch : n.switch[w].et = "t" /\ ~ n.switch[w].closed}

isolated_trafos_is(n) ==
    {t \in {n.switch[w].element : w \in open_trafo_switches(n)} :
        Cardinality({w \in open_trafo_switches(n) : n.switch[w].element = t}) > 1}
    \cap {r \in DOMAIN n.trafo : n.trafo[r].in_service}

isolated_trafos3w_is(n) ==
    {t \in {n.switch[w].element : w \in open_trafo_switches(n)} :
        Cardinality({w \in open_trafo_switches(n) : n.switch[w].element = t}) > 2}
    \cap {r \in DOMAIN n.trafo : n.trafo[r].in_service}

disconnected_elements(n) ==
    LET disc_elements ==
            [sections |-> disconnected_sections(n),
             isolated_trafos |-> isolated_trafos_is(n),
             isolated_trafos3w |-> isolated_trafos3w_is(n)]
    IN IF /\ disc_elements.sections = {}
          /\ disc_elements.isolated_trafos = {}
          /\ disc_elements.isolated_trafos3w = {}
       THEN None ELSE Value(disc_elements)

(***************************************************************************)
(* The solver (runpp, or kwargs["run"]): an external function.  A call     *)
(* converges or raises; a converged call leaves result tables behind,      *)
(* which only numba_comparison reads.                                      *)
(***************************************************************************)
SolverExceptions == {"LoadflowNotConverged", "FloatingPointError", "RuntimeError"}

\* values of a result cell, in units of numba_tolerance
ResValues == {0, 1, 2}

\* the result cells res_bus.vm_pu[0] and res_bus.vm_pu[1]
Results == {[res_bus |-> [vm_pu |-> t]] : t \in [{0, 1} -> ResValues]}

\* result tables nobody reads
NoRes == [res_bus |-> [vm_pu |-> EmptyTable]]

Outcomes(opt) ==
    {[exc |-> e, res |-> NoRes] : e \in SolverExceptions}
    \cup {[exc |-> "converged", res |-> r] :
            r \in IF opt = "default" THEN {NoRes} ELSE Results}

\* run(net, **opt) ends with outcome o; failed: the code that runs after the
\* call raises an exception of its own
Solve(opt, o, failed) ==
    /\ o \in Outcomes(opt)
    /\ unexpected' = (\/ unexpected
                      \/ failed
                      \/ o.exc \notin expected_exceptions \cup {"converged"})
    /\ det => \A m \in memo : (m.net = net /\ m.opt = opt) => m.out = o
    /\ memo' = IF det THEN memo \cup {[net |-> net, opt |-> opt, out |-> o]}
               ELSE memo
    /\ ncalls' = ncalls + 1
    /\ solves' = Append(solves, o.exc)

(***************************************************************************)
(* Substitute elements of the implausible-impedance probe.  create_switch, *)
(* create_impedance (pandapower.create) and replace_xward_by_ward          *)
(* (pandapower.toolbox) are not part of the sources at hand.               *)
(***************************************************************************)
RECURSIVE Ascending(_)
Ascending(S) ==
    IF S = {} THEN <<>>
    ELSE LET m == CHOOSE x \in S : \A y \in S : x <= y
         IN <<m>> \o Ascending(S \ {m})

create_switch(n, bus, element, et) ==
    [n EXCEPT !.switch = Put(n.switch, FreeId(n.switch),
        [bus |-> bus, element |-> element, et |-> et, closed |-> TRUE])]

create_impedance(n, from_bus, to_bus, r_pu, x_pu, sn_mva) ==
    [n EXCEPT !.impedance = Put(n.impedance, FreeId(n.impedance),
        [from_bus |-> from_bus, to_bus |-> to_bus, rft_pu |-> r_pu,
         xft_pu |-> x_pu, rtf_pu |-> r_pu, xtf_pu |-> x_pu, sn_mva |-> sn_mva,
         in_service |-> TRUE])]

\* every xward of idx becomes a ward at the same bus and is dropped
RECURSIVE replace_xward_by_ward(_, _)
replace_xward_by_ward(n, idx) ==
    IF idx = <<>> THEN n
    ELSE replace_xward_by_ward(
            [n EXCEPT
                !.ward = Put(n.ward, FreeId(n.ward),
                             [bus |-> n.xward[Head(idx)].bus,
                              in_service |-> n.xward[Head(idx)].in_service]),
                !.xward = [r \in (DOMAIN n.xward) \ {Head(idx)} |-> n.xward[r]]],
            Tail(idx))

\* lines 641-647: the writes that precede the creation of substitutes
take_out_of_service(n, key, implausible_idx) ==
    LET n1 == IF key = "vsc"
              THEN [n EXCEPT !.vsc =
                      [r \in DOMAIN n.vsc |->
                          [n.vsc[r] EXCEPT !.x_ohm = fmax(@, 500),
                                           !.r_dc_ohm = fmax(@, 500)]]]
              ELSE n
        n2 == IF key = "line_dc"
              THEN [n1 EXCEPT !.line_dc =
                      [r \in DOMAIN n1.line_dc |->
                          [n1.line_dc[r] EXCEPT !.length_m = fmax(@, 500),
                                                !.r_dc_ohm = fmax(@, 500)]]]
              ELSE n1
    IN [n2 EXCEPT ![key] = OutOfService(n2[key], implausible_idx)]

\* lines 648-664: the substitutes of one kind, row after row
RECURSIVE create_substitutes(_, _, _)
create_substitutes(n, key, idx) ==
    IF idx = <<>> THEN n
    ELSE LET r == Head(idx)
             n1 == CASE key = "trafo" ->
                          create_impedance(n, n.trafo[r].hv_bus,
                                           n.trafo[r].lv_bus, 0, 10, 100)
                     [] key = "trafo3w" ->
                          create_impedance(
                            create_impedance(
                              create_impedance(n, n.trafo3w[r].hv_bus,
                                               n.trafo3w[r].mv_bus, 0, 10, 100),
                              n.trafo3w[r].mv_bus, n.trafo3w[r].lv_bus, 0, 10, 100),
                            n.trafo3w[r].hv_bus, n.trafo3w[r].lv_bus, 0, 10, 100)
                     [] OTHER ->
                          create_switch(n, n[key][r].from_bus, n[key][r].to_bus, "b")
         IN create_substitutes(n1, key, Tail(idx))

\* the loop of lines 639-664 from position k of the key order on; at position
\* failAt (0: nowhere) the creation of the substitutes raises
RECURSIVE substitute(_, _, _, _)
substitute(n, elements, k, failAt) ==
    IF k > Len(KeyOrder) THEN n
    ELSE LET key == KeyOrder[k] IN
         IF key \notin DOMAIN elements THEN substitute(n, elements, k + 1, failAt)
         ELSE LET n1 == take_out_of_service(n, key, elements[key])
                  n2 == IF key = "xward"
                        THEN replace_xward_by_ward(n1, Ascending(elements[key]))
                        ELSE create_substitutes(n1, key, Ascending(elements[key]))
              IN IF k = failAt THEN n1
                 ELSE substitute(n2, elements, k + 1, failAt)

(***************************************************************************)
(* numba_comparison: the deviations between the two result sets.           *)
(***************************************************************************)
res_keys == {"res_bus"}

\* mutant: a deviation of exactly the tolerance counts as a difference
numba_diffs_at_tolerance(result_numba_true, result_numba_false) ==
    LET diffs(key, col) ==
            {r \in DOMAIN result_numba_true[key][col] :
                Abs(result_numba_true[key][col][r] - result_numba_false[key][col][r])
                    >= numba_tolerance}
        cols(key) == {c \in DOMAIN result_numba_true[key] : diffs(key, c) # {}}
        check_results ==
            [key \in {k \in res_keys : cols(k) # {}} |->
                [col \in cols(key) |->
                    [r \in diffs(key, col) |->
                        Abs(result_numba_true[key][col][r]
                            - result_numba_false[key][col][r])]]]
    IN IF DOMAIN check_results = {} THEN None ELSE Value(check_results)

numba_diffs(result_numba_true, result_numba_false) ==
    LET diffs(key, col) ==
            {r \in DOMAIN result_numba_true[key][col] :
                Abs(result_numba_true[key][col][r] - result_numba_false[key][col][r])
                    > numba_tolerance}
        cols(key) == {c \in DOMAIN result_numba_true[key] : diffs(key, c) # {}}
        check_results ==
            [key \in {k \in res_keys : cols(k) # {}} |->
                [col \in cols(key) |->
                    [r \in diffs(key, col) |->
                        Abs(result_numba_true[key][col][r]
                            - result_numba_false[key][col][r])]]]
    IN IF DOMAIN check_results = {} THEN None ELSE Value(check_results)

(***************************************************************************)
(* The orchestrator: diagnostic().                                         *)
(***************************************************************************)
diag_functions ==
    <<"missing_bus_indices", "disconnected_elements",
      "different_voltage_levels_connected", "implausible_impedance_values",
      "nominal_voltages_dont_match", "invalid_values", "overload",
      "wrong_switch_configuration",
      "multiple_voltage_controlling_elements_per_bus", "no_ext_grid",
      "wrong_reference_system", "deviation_from_std_type", "numba_comparison",
      "parallel_switches">>

\* the checks that never call the solver
StaticChecks ==
    {"missing_bus_indices", "disconnected_elements",
     "different_voltage_levels_connected", "nominal_voltages_dont_match",
     "invalid_values", "multiple_voltage_controlling_elements_per_bus",
     "no_ext_grid", "wrong_reference_system", "deviation_from_std_type",
     "parallel_switches"}

StaticResult(name, n) ==
    CASE name = "missing_bus_indices" -> missing_bus_indices(n)
      [] name = "disconnected_elements" -> disconnected_elements(n)
      [] name = "different_voltage_levels_connected" ->
            different_voltage_levels_connected(n)
      [] name = "nominal_voltages_dont_match" -> nominal_voltages_dont_match(n)
      [] name = "invalid_values" -> invalid_values(n)
      [] name = "multiple_voltage_controlling_elements_per_bus" ->
            multiple_voltage_controlling_elements_per_bus(n)
      [] name = "no_ext_grid" -> no_ext_grid(n)
      [] name = "wrong_reference_system" -> wrong_reference_system(n)
      [] name = "deviation_from_std_type" -> deviation_from_std_type(n)
      [] name = "parallel_switches" -> parallel_switches(n)

return_result_dict == TRUE

NoLocals == EmptyTable

Name == diag_functions[i]

\* mutant: the loop skips the catalog entry after the one that just ran
Advance_skips(e) ==
    /\ raised' = e
    /\ i' = IF solo = "" THEN i + 2 ELSE i
    /\ pc' = IF solo # "" THEN "alone_done"
             ELSE IF i + 2 > Len(diag_functions) THEN "report" ELSE "call"
    /\ loc' = NoLocals

\* the loop of lines 109-115 moves on to the next catalog entry; a check that
\* was invoked on its own hands its outcome to its caller instead
Advance(e) ==
    /\ raised' = e
    /\ i' = IF solo = "" THEN i + 1 ELSE i
    /\ pc' = IF solo # "" THEN "alone_done"
             ELSE IF i + 1 > Len(diag_functions) THEN "report" ELSE "call"
    /\ loc' = NoLocals

\* lines 111-113: the check returns diag_result and leaves the model as n
Return(n, diag_result) ==
    /\ net' = n
    /\ diag_results' = IF diag_result.none THEN diag_results
                       ELSE Put(diag_results, Name, diag_result.value)
    /\ diag_errors' = diag_errors
    /\ Advance("")

\* mutant: an exception of a check ends the loop
Raise_aborts(n, e) ==
    /\ net' = n
    /\ diag_results' = diag_results
    /\ diag_errors' = Put(diag_errors, Name, e)
    /\ raised' = e
    /\ i' = Len(diag_functions) + 1
    /\ pc' = "report"
    /\ loc' = NoLocals

\* lines 114-115: the check raises e and leaves the model as n
Raise(n, e) ==
    /\ net' = n
    /\ diag_results' = diag_results
    /\ diag_errors' = Put(diag_errors, Name, e)
    /\ Advance(e)

\* line 111: diag_function(net, **kwargs) is entered
Enter ==
    /\ invoked' = Append(invoked, Name)
    /\ entry' = net
    /\ solves' = <<>>
    /\ UNCHANGED <<memo, ncalls, unexpected>>

Ghosts == UNCHANGED <<returned, net0, det, run_no, prev, solo>>

InCheck == UNCHANGED <<invoked, entry>>

Continue(n, next_pc, locals) ==
    /\ net' = n
    /\ pc' = next_pc
    /\ loc' = locals
    /\ UNCHANGED <<i, diag_results, diag_errors, raised>>

\* mutant: a static check zeroes the load scaling of the model it inspects
CallStatic_writes ==
    /\ pc = "call"
    /\ Name \in StaticChecks
    /\ Enter
    /\ Return([net EXCEPT !.load = SetColumn(net.load, "scaling", 0)],
              StaticResult(Name, net))
    /\ Ghosts

\* lines 109-113 for a check that makes no solver call: the whole check runs
CallStatic ==
    /\ pc = "call"
    /\ Name \in StaticChecks
    /\ Enter
    /\ Return(net, StaticResult(Name, net))
    /\ Ghosts

(***************************************************************************)
(* overload (lines 384-443).                                               *)
(***************************************************************************)
restore_scaling(n, locals) ==
    [n EXCEPT !.sgen = AssignColumn(n.sgen, "scaling", locals.sgen_scaling),
              !.gen = AssignColumn(n.gen, "scaling", locals.gen_scaling),
              !.load = AssignColumn(n.load, "scaling", locals.load_scaling)]

\* "if check_result: return check_result"
overload_return(check_result) ==
    IF DOMAIN check_result = {} THEN None ELSE Value(check_result)

overload_enter ==
    /\ pc = "call"
    /\ Name = "overload"
    /\ Enter
    /\ Continue(net, "overload_run0",
                [check_result |-> EmptyTable,
                 load_scaling |-> Column(net.load, "scaling"),
                 gen_scaling |-> Column(net.gen, "scaling"),
                 sgen_scaling |-> Column(net.sgen, "scaling")])
    /\ Ghosts

\* mutant: an unexpected exception of the first solve is not caught
overload_run0_uncaught(o) ==
    /\ pc = "overload_run0"
    /\ Solve("default", o, FALSE)
    /\ CASE o.exc = "converged" -> Return(net, overload_return(loc.check_result))
         [] o.exc \in expected_exceptions ->
              Continue([net EXCEPT !.load = SetColumn(net.load, "scaling",
                                                     overload_scaling_factor)],
                       "overload_run1",
                       [loc EXCEPT !.check_result =
                           [load |-> FALSE, generation |-> FALSE]])
         [] OTHER -> Raise(net, o.exc)
    /\ InCheck /\ Ghosts

\* line 410 ends
overload_run0(o) ==
    /\ pc = "overload_run0"
    /\ Solve("default", o, FALSE)
    /\ IF o.exc \in expected_exceptions
       THEN Continue([net EXCEPT !.load = SetColumn(net.load, "scaling",
                                                   overload_scaling_factor)],
                     "overload_run1",
                     [loc EXCEPT !.check_result =
                         [load |-> FALSE, generation |-> FALSE]])
       ELSE Return(net, overload_return(loc.check_result))
    /\ InCheck /\ Ghosts

\* mutant: the loads stay scaled down when the generation-only step starts
overload_run1_keeps_load(o) ==
    /\ pc = "overload_run1"
    /\ Solve("default", o, FALSE)
    /\ CASE o.exc = "converged" ->
              Return(restore_scaling(net, loc),
                     overload_return([loc.check_result EXCEPT !.load = TRUE]))
         [] o.exc \in expected_exceptions ->
              Continue([net EXCEPT
                          !.gen = SetColumn(net.gen, "scaling",
                                            overload_scaling_factor),
                          !.sgen = SetColumn(net.sgen, "scaling",
                                             overload_scaling_factor)],
                       "overload_run2", loc)
         [] OTHER -> Raise(net, o.exc)
    /\ InCheck /\ Ghosts

\* line 416 ends
overload_run1(o) ==
    /\ pc = "overload_run1"
    /\ Solve("default", o, FALSE)
    /\ CASE o.exc = "converged" ->
              Return(restore_scaling(net, loc),
                     overload_return([loc.check_result EXCEPT !.load = TRUE]))
         [] o.exc \in expected_exceptions ->
              Continue([net EXCEPT
                          !.load = AssignColumn(net.load, "scaling", loc.load_scaling),
                          !.gen = SetColumn(net.gen, "scaling",
                                            overload_scaling_factor),
                          !.sgen = SetColumn(net.sgen, "scaling",
                                             overload_scaling_factor)],
                       "overload_run2", loc)
         [] OTHER -> Raise(net, o.exc)
    /\ InCheck /\ Ghosts

\* mutant: convergence of the generation-only step is credited to the loads too
overload_run2_credits_load(o) ==
    /\ pc = "overload_run2"
    /\ Solve("default", o, FALSE)
    /\ CASE o.exc = "converged" ->
              Return(restore_scaling(net, loc),
                     overload_return([loc.check_result EXCEPT
                                        !.generation = TRUE, !.load = TRUE]))
         [] o.exc \in expected_exceptions ->
              Continue([net EXCEPT
                          !.load = SetColumn(net.load, "scaling",
                                             overload_scaling_factor),
                          !.gen = SetColumn(net.gen, "scaling",
                                            overload_scaling_factor),
                          !.sgen = SetColumn(net.sgen, "scaling",
                                             overload_scaling_factor)],
                       "overload_run3", loc)
         [] OTHER -> Raise(net, o.exc)
    /\ InCheck /\ Ghosts

\* line 423 ends
overload_run2(o) ==
    /\ pc = "overload_run2"
    /\ Solve("default", o, FALSE)
    /\ CASE o.exc = "converged" ->
              Return(restore_scaling(net, loc),
                     overload_return([loc.check_result EXCEPT !.generation = TRUE]))
         [] o.exc \in expected_exceptions ->
              Continue([net EXCEPT
                          !.load = SetColumn(net.load, "scaling",
                                             overload_scaling_factor),
                          !.gen = SetColumn(net.gen, "scaling",
                                            overload_scaling_factor),
                          !.sgen = SetColumn(net.sgen, "scaling",
                                             overload_scaling_factor)],
                       "overload_run3", loc)
         [] OTHER -> Raise(net, o.exc)
    /\ InCheck /\ Ghosts

\* line 432 ends
overload_run3(o) ==
    /\ pc = "overload_run3"
    /\ Solve("default", o, FALSE)
    /\ CASE o.exc = "converged" ->
              Return(restore_scaling(net, loc),
                     overload_return([loc.check_result EXCEPT
                                        !.generation = TRUE, !.load = TRUE]))
         [] o.exc \in expected_exceptions ->
              Return(restore_scaling(net, loc), overload_return(loc.check_result))
         [] OTHER -> Raise(net, o.exc)
    /\ InCheck /\ Ghosts

(***************************************************************************)
(* wrong_switch_configuration (lines 446-475).                             *)
(***************************************************************************)
restore_switches(n, locals) ==
    [n EXCEPT !.switch = AssignColumn(n.switch, "closed",
                                      locals.switch_configuration)]

wrong_switch_configuration_enter ==
    /\ pc = "call"
    /\ Name = "wrong_switch_configuration"
    /\ Enter
    /\ Continue(net, "switch_run0",
                [switch_configuration |-> Column(net.switch, "closed")])
    /\ Ghosts

\* mutant: a model that converges as it is gets a result all the same
wrong_switch_configuration_run0_reports(o) ==
    /\ pc = "switch_run0"
    /\ Solve("default", o, FALSE)
    /\ CASE o.exc \in expected_exceptions ->
              Continue([net EXCEPT !.switch = SetColumn(net.switch, "closed", TRUE)],
                       "switch_run1", loc)
         [] o.exc = "converged" -> Return(net, Value(TRUE))
         [] OTHER -> Return(net, None)
    /\ InCheck /\ Ghosts

\* line 464 ends
wrong_switch_configuration_run0(o) ==
    /\ pc = "switch_run0"
    /\ Solve("default", o, FALSE)
    /\ IF o.exc \in expected_exceptions
       THEN Continue([net EXCEPT !.switch = SetColumn(net.switch, "closed", TRUE)],
                     "switch_run1", loc)
       ELSE Return(net, None)
    /\ InCheck /\ Ghosts

\* mutant: the probe reports true whatever the re-solve did
wrong_switch_configuration_run1_always_true(o) ==
    /\ pc = "switch_run1"
    /\ Solve("default", o, FALSE)
    /\ CASE o.exc = "converged" -> Return(restore_switches(net, loc), Value(TRUE))
         [] o.exc \in expected_exceptions ->
              Return(restore_switches(net, loc), Value(TRUE))
         [] OTHER -> Raise(net, o.exc)
    /\ InCheck /\ Ghosts

\* line 468 ends
wrong_switch_configuration_run1(o) ==
    /\ pc = "switch_run1"
    /\ Solve("default", o, FALSE)
    /\ CASE o.exc = "converged" -> Return(restore_switches(net, loc), Value(TRUE))
         [] o.exc \in expected_exceptions ->
              Return(restore_switches(net, loc), Value(FALSE))
         [] OTHER -> Raise(net, o.exc)
    /\ InCheck /\ Ghosts

(***************************************************************************)
(* implausible_impedance_values (lines 545-682).                           *)
(***************************************************************************)
SnapshotTables == {"switch", "line", "impedance", "vsc", "line_dc", "ward",
                   "xward", "trafo", "trafo3w"}

\* line 625
takes_snapshot(elements) ==
    \/ "line" \in DOMAIN elements
    \/ "impedance" \in DOMAIN elements
    \/ "xward" \in DOMAIN elements

\* lines 672-680
restore_tables(n, locals) ==
    [t \in DOMAIN n |-> IF t \in SnapshotTables THEN locals.copy[t] ELSE n[t]]

\* "if implausible_elements: return check_results"
impedance_return(locals) ==
    IF DOMAIN locals.implausible_elements = {} THEN None
    ELSE Value(locals.check_results)

implausible_impedance_values_enter ==
    /\ pc = "call"
    /\ Name = "implausible_impedance_values"
    /\ Enter
    /\ LET locals == [implausible_elements |-> implausible_elements(net),
                      check_results |-> <<implausible_elements(net)>>,
                      copy |-> [t \in SnapshotTables |-> net[t]]]
       IN IF takes_snapshot(locals.implausible_elements)
          THEN Continue(net, "impedance_run0", locals)
          ELSE Return(net, impedance_return(locals))
    /\ Ghosts

\* mutant: every exception of the first solve starts the substitution
implausible_impedance_values_run0_retries(o, failAt) ==
    /\ pc = "impedance_run0"
    /\ det => failAt = 0
    /\ Solve("default", o, failAt # 0)
    /\ IF o.exc # "converged"
       THEN /\ \/ failAt = 0
               \/ /\ failAt \in 1..Len(KeyOrder)
                  /\ KeyOrder[failAt] \in DOMAIN loc.implausible_elements
            /\ IF failAt = 0
               THEN Continue(substitute(net, loc.implausible_elements, 1, 0),
                             "impedance_run1", loc)
               ELSE Raise(substitute(net, loc.implausible_elements, 1, failAt),
                          "AttributeError")
       ELSE /\ failAt = 0
            /\ Return(restore_tables(net, loc), impedance_return(loc))
    /\ InCheck /\ Ghosts

\* line 636 ends; on non-convergence the substitutes are created, which
\* raises at key number failAt of the key order, or nowhere (failAt = 0);
\* where run is a function of the model, so is the creation, which succeeds
implausible_impedance_values_run0(o, failAt) ==
    /\ pc = "impedance_run0"
    /\ det => failAt = 0
    /\ Solve("default", o, failAt # 0)
    /\ IF o.exc \in expected_exceptions \cup {"FloatingPointError"}
       THEN /\ \/ failAt = 0
               \/ /\ failAt \in 1..Len(KeyOrder)
                  /\ KeyOrder[failAt] \in DOMAIN loc.implausible_elements
            /\ IF failAt = 0
               THEN Continue(substitute(net, loc.implausible_elements, 1, 0),
                             "impedance_run1", loc)
               ELSE Raise(substitute(net, loc.implausible_elements, 1, failAt),
                          "AttributeError")
       ELSE /\ failAt = 0
            /\ Return(restore_tables(net, loc), impedance_return(loc))
    /\ InCheck /\ Ghosts

\* line 665 ends
\* mutant: a FloatingPointError of the re-solve counts as non-convergence
implausible_impedance_values_run1_tolerant(o) ==
    /\ pc = "impedance_run1"
    /\ Solve("default", o, FALSE)
    /\ LET appended(switch_replacement) ==
              [loc EXCEPT !.check_results = Append(@,
                  [loadflow_converges_with_switch_replacement |->
                      switch_replacement])]
       IN CASE o.exc = "converged" ->
                  Return(restore_tables(net, loc), impedance_return(appended(TRUE)))
            [] o.exc \in expected_exceptions \cup {"FloatingPointError"} ->
                  Return(restore_tables(net, loc), impedance_return(appended(FALSE)))
            [] OTHER -> Raise(net, o.exc)
    /\ InCheck /\ Ghosts

implausible_impedance_values_run1(o) ==
    /\ pc = "impedance_run1"
    /\ Solve("default", o, FALSE)
    /\ LET appended(switch_replacement) ==
              [loc EXCEPT !.check_results = Append(@,
                  [loadflow_converges_with_switch_replacement |->
                      switch_replacement])]
       IN CASE o.exc = "converged" ->
                  Return(restore_tables(net, loc), impedance_return(appended(TRUE)))
            [] o.exc \in expected_exceptions ->
                  Return(restore_tables(net, loc), impedance_return(appended(FALSE)))
            [] OTHER -> Raise(net, o.exc)
    /\ InCheck /\ Ghosts

(***************************************************************************)
(* numba_comparison (lines 924-964).                                       *)
(***************************************************************************)
numba_comparison_enter ==
    /\ pc = "call"
    /\ Name = "numba_comparison"
    /\ Enter
    /\ Continue(net, "numba_run1", [check_results |-> EmptyTable])
    /\ Ghosts

\* line 940 ends
numba_comparison_run1(o) ==
    /\ pc = "numba_run1"
    /\ Solve("numba=True", o, FALSE)
    /\ IF o.exc = "converged"
       THEN Continue(net, "numba_run2", [result_numba_true |-> o.res])
       ELSE Raise(net, o.exc)
    /\ InCheck /\ Ghosts

\* line 942 ends
numba_comparison_run2(o) ==
    /\ pc = "numba_run2"
    /\ Solve("numba=False", o, FALSE)
    /\ IF o.exc = "converged"
       THEN Return(net, numba_diffs(loc.result_numba_true, o.res))
       ELSE Raise(net, o.exc)
    /\ InCheck /\ Ghosts

(***************************************************************************)
(* diagnostic(): lines 134-135.                                            *)
(***************************************************************************)
diagnostic_return ==
    /\ pc = "report"
    /\ pc' = "done"
    /\ returned' = IF return_result_dict THEN Value(diag_results) ELSE None
    /\ UNCHANGED <<net, i, loc, diag_results, diag_errors, solves, ncalls,
                   invoked, net0, entry, memo, det, run_no, raised, unexpected,
                   prev, solo>>

(***************************************************************************)
(* Specifications.                                                         *)
(***************************************************************************)
InitRun(deterministic, nets) ==
    /\ net \in nets
    /\ net0 = net
    /\ entry = net
    /\ i = 1
    /\ pc = "call"
    /\ loc = NoLocals
    /\ diag_results = EmptyTable
    /\ diag_errors = EmptyTable
    /\ returned = None
    /\ solves = <<>>
    /\ ncalls = 0
    /\ invoked = <<>>
    /\ memo = {}
    /\ det = deterministic
    /\ run_no = 1
    /\ raised = ""
    /\ unexpected = FALSE
    /\ prev = [results |-> EmptyTable, errors |-> EmptyTable]
    /\ solo = ""

Init == InitRun(FALSE, InitialNets)

Orchestrate ==
    \/ CallStatic
    \/ implausible_impedance_values_enter
    \/ overload_enter
    \/ wrong_switch_configuration_enter
    \/ numba_comparison_enter
    \/ diagnostic_return

SolverReturns ==
    \/ \E o \in Outcomes("default") : \E failAt \in 0..Len(KeyOrder) :
          implausible_impedance_values_run0(o, failAt)
    \/ \E o \in Outcomes("default") : implausible_impedance_values_run1(o)
    \/ \E o \in Outcomes("default") : overload_run0(o)
    \/ \E o \in Outcomes("default") : overload_run1(o)
    \/ \E o \in Outcomes("default") : overload_run2(o)
    \/ \E o \in Outcomes("default") : overload_run3(o)
    \/ \E o \in Outcomes("default") : wrong_switch_configuration_run0(o)
    \/ \E o \in Outcomes("default") : wrong_switch_configuration_run1(o)
    \/ \E o \in Outcomes("numba=True") : numba_comparison_run1(o)
    \/ \E o \in Outcomes("numba=False") : numba_comparison_run2(o)

Next == Orchestrate \/ SolverReturns

\* one diagnostic() call, any solver
Spec == Init /\ [][Next]_vars

\* one diagnostic() call in which the loop keeps stepping and every solver call
\* returns or raises
SpecFair == Init /\ [][Next]_vars /\ WF_vars(Next)

\* one diagnostic() call, run a function of the model and its options
SpecDet == InitRun(TRUE, InitialNets) /\ [][Next]_vars

\* the caller calls diagnostic() a second time on the model the first call left
diagnostic_again ==
    /\ pc = "done"
    /\ run_no = 1
    /\ solo = ""
    /\ prev' = [results |-> diag_results, errors |-> diag_errors]
    /\ run_no' = 2
    /\ net0' = net
    /\ entry' = net
    /\ i' = 1
    /\ pc' = "call"
    /\ diag_results' = EmptyTable
    /\ diag_errors' = EmptyTable
    /\ returned' = None
    /\ solves' = <<>>
    /\ ncalls' = 0
    /\ invoked' = <<>>
    /\ raised' = ""
    /\ unexpected' = FALSE
    /\ UNCHANGED <<net, loc, memo, det, solo>>

NextTwice == Next \/ diagnostic_again

\* two diagnostic() calls in succession, deterministic solver
SpecTwice == InitRun(TRUE, {InitialNet({"line"})}) /\ [][NextTwice]_vars

\* for comparison with the pipeline: check number k of the catalog is invoked on
\* its own on the model as it was before the pipeline ran
invoke_alone(k) ==
    /\ pc = "done"
    /\ run_no = 1
    /\ solo = ""
    /\ prev' = [results |-> diag_results, errors |-> diag_errors]
    /\ solo' = diag_functions[k]
    /\ net' = net0
    /\ i' = k
    /\ pc' = "call"
    /\ diag_results' = EmptyTable
    /\ diag_errors' = EmptyTable
    /\ UNCHANGED <<loc, returned, solves, ncalls, invoked, net0, entry, memo,
                   det, run_no, raised, unexpected>>

NextAlone == Next \/ \E k \in 1..Len(diag_functions) : invoke_alone(k)

\* one diagnostic() call, then one check on its own, deterministic solver
SpecAlone == InitRun(TRUE, {InitialNet({"line"})}) /\ [][NextAlone]_vars

\* check number k of the catalog is invoked on its own
InitUnit(k, nets) ==
    /\ net \in nets
    /\ net0 = net
    /\ entry = net
    /\ i = k
    /\ pc = "call"
    /\ loc = NoLocals
    /\ diag_results = EmptyTable
    /\ diag_errors = EmptyTable
    /\ returned = None
    /\ solves = <<>>
    /\ ncalls = 0
    /\ invoked = <<>>
    /\ memo = {}
    /\ det = FALSE
    /\ run_no = 1
    /\ raised = ""
    /\ unexpected = FALSE
    /\ prev = [results |-> EmptyTable, errors |-> EmptyTable]
    /\ solo = diag_functions[k]

\* missing_bus_indices or disconnected_elements, invoked on its own on a model
\* with dangling references or with islands
SpecUnit ==
    /\ \/ InitUnit(1, ScanNets)
       \/ InitUnit(2, TopologyNets)
       \/ InitUnit(2, IsolationNets)
       \/ InitUnit(3, CrossVoltageNets)
       \/ InitUnit(5, NameplateNets)
       \/ InitUnit(9, SourceNets)
    /\ [][CallStatic]_vars

(***************************************************************************)
(* Properties.                                                             *)
(***************************************************************************)
SolverChecks == {"implausible_impedance_values", "overload",
                 "wrong_switch_configuration", "numba_comparison"}

\* the check `name` has just returned or raised
JustFinished(name) ==
    /\ pc \in {"call", "report", "alone_done"}
    /\ invoked # <<>>
    /\ invoked[Len(invoked)] = name

NotConverged(e) == e \in expected_exceptions

Structural(e) == e \notin expected_exceptions \cup {"converged"}

ScalingIs(t, v) == \A r \in DOMAIN net[t] : net[t][r].scaling = v

ScalingOriginal(t) == Column(net[t], "scaling") = Column(entry[t], "scaling")

\* C1: when diagnostic() has returned, every table of the model equals its
\* value before the call, whatever the solver calls did.
C1_NonInterference ==
    pc = "done" => \A t \in DOMAIN net0 : net[t] = net0[t]

\* C2: an exception raised by a check does not leave diagnostic(): it is
\* recorded in diag_errors under the name of that check, the checks are invoked
\* in catalog order, and all 14 have been invoked when the loop ends.
C2_FailureIsolation ==
    /\ Len(invoked) <= Len(diag_functions)
    /\ invoked = SubSeq(diag_functions, 1, Len(invoked))
    /\ pc \in {"report", "done"} => invoked = diag_functions
    /\ (pc \in {"call", "report"} /\ raised # "") =>
          /\ i > 1
          /\ diag_functions[i - 1] \in DOMAIN diag_errors
          /\ diag_errors[diag_functions[i - 1]] = raised

\* a run in which two checks raised and every check was invoked all the same
C2_Witness ==
    /\ pc = "done"
    /\ "overload" \in DOMAIN diag_errors
    /\ "numba_comparison" \in DOMAIN diag_errors
    /\ invoked = diag_functions

\* C3: with a deterministic solver, a second diagnostic() call right after the
\* first yields the same findings and the same errors.
C3_Idempotence ==
    (pc = "done" /\ run_no = 2) =>
        /\ diag_results = prev.results
        /\ diag_errors = prev.errors

\* C4: with a deterministic solver, the outcome of a check inside the pipeline
\* (payload, nothing, or recorded error) equals the outcome of that check
\* invoked on its own on the model as it was before the run.
C4_Independence ==
    pc = "alone_done" =>
        /\ (solo \in DOMAIN diag_results) = (solo \in DOMAIN prev.results)
        /\ (solo \in DOMAIN diag_results /\ solo \in DOMAIN prev.results) =>
              diag_results[solo] = prev.results[solo]
        /\ (solo \in DOMAIN diag_errors) = (solo \in DOMAIN prev.errors)
        /\ (solo \in DOMAIN diag_errors /\ solo \in DOMAIN prev.errors) =>
              diag_errors[solo] = prev.errors[solo]

\* C5: when overload() returns or raises, the scaling columns of load, gen and
\* sgen equal their values at entry.
C5_OverloadRestoresScaling ==
    JustFinished("overload") =>
        \A t \in {"load", "gen", "sgen"} : ScalingOriginal(t)

\* C6: when wrong_switch_configuration() returns or raises, switch.closed
\* equals its value at entry.
C6_SwitchProbeRestores ==
    JustFinished("wrong_switch_configuration") =>
        Column(net.switch, "closed") = Column(entry.switch, "closed")

\* C7: when implausible_impedance_values() took its snapshot and returns or
\* raises, the nine snapshot tables equal their values at entry.
C7_ImpedanceProbeRestores ==
    (/\ JustFinished("implausible_impedance_values")
     /\ takes_snapshot(implausible_elements(entry))) =>
        \A t \in SnapshotTables : net[t] = entry[t]

\* C8: as long as every solver call of the run converged or raised one of the
\* expected non-convergence exceptions (and nothing else raised), diag_errors
\* has no entry for a solver-using check.
C8_NonConvergenceIsNoError ==
    ~ unexpected => (DOMAIN diag_errors) \cap SolverChecks = {}

C10_OverloadLadder ==
    /\ pc = "overload_run0" =>
          /\ solves = <<>>
          /\ \A t \in {"load", "gen", "sgen"} : ScalingOriginal(t)
    /\ pc = "overload_run1" =>
          /\ Len(solves) = 1
          /\ ScalingIs("load", overload_scaling_factor)
          /\ ScalingOriginal("gen") /\ ScalingOriginal("sgen")
    /\ pc = "overload_run2" =>
          /\ Len(solves) = 2
          /\ ScalingOriginal("load")
          /\ ScalingIs("gen", overload_scaling_factor)
          /\ ScalingIs("sgen", overload_scaling_factor)
    /\ pc = "overload_run3" =>
          /\ Len(solves) = 3
          /\ \A t \in {"load", "gen", "sgen"} :
                ScalingIs(t, overload_scaling_factor)
    /\ pc \in {"overload_run0", "overload_run1", "overload_run2", "overload_run3"} =>
          \A k \in 1..Len(solves) : NotConverged(solves[k])

\* the third step of the ladder is about to be solved
C10_Witness ==
    /\ pc = "overload_run3"
    /\ solves = <<"LoadflowNotConverged", "LoadflowNotConverged",
                  "LoadflowNotConverged">>

\* what the run recorded for a check: its payload, or None
Finding(c) == IF c \in DOMAIN diag_results THEN Value(diag_results[c]) ELSE None

C12_OverloadNothingIfNoScalingHelped ==
    (/\ JustFinished("overload")
     /\ Len(solves) = 4
     /\ \A k \in 1..4 : NotConverged(solves[k])) =>
        Finding("overload") = None

\* C13: after a first solve that did not converge, the switch probe closes
\* every switch and solves again exactly once; it reports true exactly when
\* that re-solve converges and false exactly when it does not converge.
C13_SwitchProbeResult ==
    /\ pc = "switch_run1" =>
          /\ Len(solves) = 1 /\ NotConverged(solves[1])
          /\ \A w \in DOMAIN net.switch : net.switch[w].closed
    /\ (/\ JustFinished("wrong_switch_configuration")
        /\ solves # <<>>
        /\ NotConverged(solves[1])) =>
          /\ Len(solves) = 2
          /\ (Finding("wrong_switch_configuration") = Value(TRUE))
                = (solves[2] = "converged")
          /\ (Finding("wrong_switch_configuration") = Value(FALSE))
                = NotConverged(solves[2])

\* closing all switches did not help
C13_Witness ==
    /\ JustFinished("wrong_switch_configuration")
    /\ solves = <<"LoadflowNotConverged", "LoadflowNotConverged">>
    /\ Finding("wrong_switch_configuration") = Value(FALSE)
    /\ \E w \in DOMAIN entry.switch : ~ entry.switch[w].closed

RecoveryProbes == {"overload", "wrong_switch_configuration",
                   "implausible_impedance_values"}

ResolvePcs == {"overload_run1", "overload_run2", "overload_run3",
               "switch_run1", "impedance_run1"}

\* the probe c ended after its first solve: model untouched, nothing raised,
\* no recoverability result (the impedance probe hands back its detection only)
Quiet(c) ==
    /\ Len(solves) = 1
    /\ net = entry
    /\ raised = ""
    /\ c \notin DOMAIN diag_errors
    /\ Finding(c) = IF c = "implausible_impedance_values"
                    THEN Value(<<implausible_elements(entry)>>)
                    ELSE None

\* C14: in each recovery probe, a first solve that converges ends the probe:
\* no perturbation, no further solver call, no recoverability result.
C14_ConvergingModelNoProbeResult ==
    /\ pc \in ResolvePcs => solves[1] # "converged"
    /\ \A c \in RecoveryProbes :
          (JustFinished(c) /\ solves # <<>> /\ solves[1] = "converged") => Quiet(c)

\* the impedance probe on a converging model with a flagged element
C14_Witness ==
    /\ JustFinished("implausible_impedance_values")
    /\ solves = <<"converged">>
    /\ Finding("implausible_impedance_values") =
          Value(<<implausible_elements(entry)>>)

\* C15 (as stated): in each recovery probe, a first solve that raises an
\* exception other than non-convergence ends the probe: no perturbation, no
\* further solver call, nothing raised to the caller, no recoverability result.
C15_StructuralErrorNotRetried ==
    \A c \in RecoveryProbes :
        (JustFinished(c) /\ solves # <<>> /\ Structural(solves[1])) => Quiet(c)

\* C15 (amended): as stated, except that the impedance probe takes a
\* FloatingPointError of its first solve for non-convergence: it creates the
\* substitutes and solves again (or raises while creating them).
C15_StructuralErrorNotRetriedButFloatingPoint ==
    /\ pc \in ResolvePcs =>
          \/ NotConverged(solves[1])
          \/ pc = "impedance_run1" /\ solves[1] = "FloatingPointError"
    /\ \A c \in RecoveryProbes :
          (JustFinished(c) /\ solves # <<>> /\ Structural(solves[1])) =>
              IF c = "implausible_impedance_values"
                 /\ solves[1] = "FloatingPointError"
              THEN Len(solves) = 2 \/ raised # ""
              ELSE Quiet(c)

\* a structural error of the first solve of the impedance probe was swallowed
C15_Witness ==
    /\ JustFinished("implausible_impedance_values")
    /\ solves = <<"RuntimeError">>
    /\ "implausible_impedance_values" \notin DOMAIN diag_errors

\* C16: whenever an in-service element qualifies as implausible, the run
\* records a finding under implausible_impedance_values whose first entry maps
\* each kind to its qualifying elements, whatever the solver calls of the
\* probe did.
C16_DetectionUnconditional ==
    (/\ JustFinished("implausible_impedance_values")
     /\ DOMAIN implausible_elements(entry) # {}) =>
        /\ "implausible_impedance_values" \in DOMAIN diag_results
        /\ diag_results["implausible_impedance_values"][1] =
              implausible_elements(entry)

\* C17: whenever an element of any kind qualifies, the probe makes its first
\* solve, and when that solve does not converge it substitutes, solves again
\* and, unless something raised, reports a boolean
\* loadflow_converges_with_switch_replacement entry.
C17_RecoverabilityProbedForEveryKind ==
    (/\ JustFinished("implausible_impedance_values")
     /\ DOMAIN implausible_elements(entry) # {}
     /\ raised = "") =>
        /\ solves # <<>>
        /\ NotConverged(solves[1]) =>
              /\ Len(solves) = 2
              /\ Len(diag_results["implausible_impedance_values"]) = 2
              /\ diag_results["implausible_impedance_values"][2]
                    .loadflow_converges_with_switch_replacement \in BOOLEAN

\* C18: an in-service line whose total resistance equals min_r_ohm exactly,
\* its reactance strictly inside the window, is not flagged; with a total
\* resistance one unit (1 milli-ohm) below min_r_ohm it is flagged.
C18_WindowBoundary ==
    (JustFinished("implausible_impedance_values") /\ raised = "") =>
        \A r \in DOMAIN entry.line :
            LET e == entry.line[r]
                total_r == e.r_ohm_per_km * e.length_m
                total_x == e.x_ohm_per_km * e.length_m
                flagged ==
                    /\ "implausible_impedance_values" \in DOMAIN diag_results
                    /\ "line" \in DOMAIN diag_results["implausible_impedance_values"][1]
                    /\ r \in diag_results["implausible_impedance_values"][1].line
            IN (/\ e.in_service
                /\ total_x > min_x_ohm * 1000
                /\ total_x < max_x_ohm * 1000) =>
                  /\ total_r = min_r_ohm * 1000 => ~ flagged
                  /\ total_r = (min_r_ohm - 1) * 1000 => flagged

BusReferenceFields ==
    [ext_grid |-> {"bus"}, load |-> {"bus"}, gen |-> {"bus"}, sgen |-> {"bus"},
     trafo |-> {"hv_bus", "lv_bus"}, trafo3w |-> {"hv_bus", "mv_bus", "lv_bus"},
     line |-> {"from_bus", "to_bus"}, switch |-> {"bus", "element"}]

Reported(c) == IF c \in DOMAIN diag_results THEN diag_results[c] ELSE {}

\* C19: missing_bus_indices reports (row, field, value), per table, for exactly
\* the bus references of ext_grid, load, gen, sgen, trafo, trafo3w, line and
\* switch that name no bus, except the element of a switch whose element type
\* is line or transformer; a dangling switch bus is always reported, and so
\* is the dangling element of a bus-bus switch.
C19_ReferentialIntegrityScan ==
    (pc = "alone_done" /\ solo = "missing_bus_indices") =>
        LET reported == Reported("missing_bus_indices")
            exempt(t, r, f) ==
                /\ t = "switch"
                /\ f = "element"
                /\ entry.switch[r].et \in {"l", "t", "t3"}
        IN /\ \A t \in DOMAIN BusReferenceFields :
                \A r \in DOMAIN entry[t] : \A f \in BusReferenceFields[t] :
                    (<<t, r, f, entry[t][r][f]>> \in reported)
                        = (entry[t][r][f] \notin DOMAIN entry.bus
                           /\ ~ exempt(t, r, f))
           /\ \A x \in reported :
                /\ x[1] \in DOMAIN BusReferenceFields
                /\ x[2] \in DOMAIN entry[x[1]]
                /\ x[3] \in BusReferenceFields[x[1]]
                /\ x[4] = entry[x[1]][x[2]][x[3]]

\* a line switch at a bus that does not exist, for a line that does not exist:
\* the bus is reported, the line is not
C19_Witness ==
    /\ pc = "alone_done"
    /\ solo = "missing_bus_indices"
    /\ entry.switch[0].et = "l"
    /\ entry.switch[0].element \notin DOMAIN entry.line
    /\ entry.switch[0].bus \notin DOMAIN entry.bus
    /\ Reported("missing_bus_indices") =
          {<<"switch", 0, "bus", entry.switch[0].bus>>}

Sources(n) ==
    {n.ext_grid[r].bus : r \in {x \in DOMAIN n.ext_grid : n.ext_grid[x].in_service}}
    \cup {n.gen[r].bus :
            r \in {x \in DOMAIN n.gen : n.gen[x].in_service /\ n.gen[x].slack}}

Islands(n) ==
    {c \in connected_components(n) :
        c \cap Sources(n) = {} /\ \E b \in c : n.bus[b].in_service}

IslandRecords ==
    IF "disconnected_elements" \in DOMAIN diag_results
    THEN diag_results["disconnected_elements"].sections ELSE {}

\* the record lists the in-service buses of component c and the in-service
\* loads, gens and sgens at buses of c
RecordOf(rec, n, c) ==
    LET category(k) == IF k \in DOMAIN rec THEN rec[k] ELSE {}
        at(t) == {r \in DOMAIN n[t] : n[t][r].bus \in c /\ n[t][r].in_service}
    IN /\ category("buses") = {b \in c : n.bus[b].in_service}
       /\ category("loads") = at("load")
       /\ category("gens") = at("gen")
       /\ category("sgens") = at("sgen")

IsolatedTrafos3w ==
    IF "disconnected_elements" \in DOMAIN diag_results
    THEN diag_results["disconnected_elements"].isolated_trafos3w ELSE {}

\* C21: a 3-winding transformer is reported under isolated_trafos3w exactly
\* when it is in service in the trafo3w table and more than two open switches
\* of element type t3 reference it; switches of type t and the in_service
\* flags of the trafo table play no part.
C21_IsolatedTrafo3w ==
    (pc = "alone_done" /\ solo = "disconnected_elements") =>
        \A r \in (DOMAIN entry.trafo3w) \cup IsolatedTrafos3w :
            (r \in IsolatedTrafos3w)
                = (/\ r \in DOMAIN entry.trafo3w
                   /\ entry.trafo3w[r].in_service
                   /\ Cardinality({w \in DOMAIN entry.switch :
                                      /\ entry.switch[w].et = "t3"
                                      /\ entry.switch[w].element = r
                                      /\ ~ entry.switch[w].closed}) > 2)

\* the result tables the solver left for the model at entry to the running
\* check (deterministic solver: one outcome per model and option)
ResultTables(opt) ==
    (CHOOSE m \in memo : m.net = entry /\ m.opt = opt).out.res

\* the cells <<table, column, row>> of the compared result tables
ResultCells ==
    UNION {UNION {{<<k, c, r>> : r \in DOMAIN ResultTables("numba=True")[k][c]} :
                    c \in DOMAIN ResultTables("numba=True")[k]} :
             k \in {"res_bus"}}

Deviation(x) ==
    Abs(ResultTables("numba=True")[x[1]][x[2]][x[3]]
        - ResultTables("numba=False")[x[1]][x[2]][x[3]])

\* C22: when both solver modes converged, numba_comparison returns nothing if
\* no cell of the compared result tables deviates by more than the tolerance,
\* and otherwise a mapping table -> column -> row holding exactly the cells
\* that deviate by more than the tolerance, each with its absolute deviation.
C22_CrossValidationKeyedToCells ==
    (/\ JustFinished("numba_comparison")
     /\ solves = <<"converged", "converged">>) =>
        LET exceeding == {x \in ResultCells : Deviation(x) > numba_tolerance}
            finding == Finding("numba_comparison")
        IN /\ (finding = None) = (exceeding = {})
           /\ ~ finding.none =>
                LET v == finding.value
                IN /\ \A x \in exceeding :
                        /\ x[1] \in DOMAIN v
                        /\ x[2] \in DOMAIN v[x[1]]
                        /\ x[3] \in DOMAIN v[x[1]][x[2]]
                        /\ v[x[1]][x[2]][x[3]] = Deviation(x)
                   /\ \A k \in DOMAIN v : \A c \in DOMAIN v[k] :
                        \A r \in DOMAIN v[k][c] : <<k, c, r>> \in exceeding

\* one of two cells deviates by more than the tolerance, the other by exactly
\* the tolerance: the finding holds the first cell only
C22_Witness ==
    /\ JustFinished("numba_comparison")
    /\ solves = <<"converged", "converged">>
    /\ Deviation(<<"res_bus", "vm_pu", 0>>) = numba_tolerance
    /\ Deviation(<<"res_bus", "vm_pu", 1>>) > numba_tolerance
    /\ "numba_comparison" \in DOMAIN diag_results
    /\ DOMAIN diag_results["numba_comparison"].res_bus.vm_pu = {1}

\* C23: different_voltage_levels_connected reports a bus-bus switch exactly
\* when it is closed and its two buses have different nominal voltages.
C23_CrossVoltageSwitches ==
    (pc = "alone_done" /\ solo = "different_voltage_levels_connected") =>
        LET v == Finding("different_voltage_levels_connected")
            switches == IF ~ v.none /\ "switches" \in DOMAIN v.value
                        THEN v.value.switches ELSE {}
        IN \A w \in DOMAIN entry.switch :
              (w \in switches)
                  = (/\ entry.switch[w].et = "b"
                     /\ entry.switch[w].closed
                     /\ entry.bus[entry.switch[w].bus].vn_kv
                            # entry.bus[entry.switch[w].element].vn_kv)

\* the lists nominal_voltages_dont_match handed back for one table
VoltageList(table, key) ==
    LET v == Finding("nominal_voltages_dont_match")
    IN IF ~ v.none /\ table \in DOMAIN v.value /\ key \in DOMAIN v.value[table]
       THEN v.value[table][key] ELSE {}

\* |1 - vn_kv / bus_vn_kv| > nom_voltage_tolerance
Exceeds(vn_kv, bus_vn_kv) ==
    Abs(bus_vn_kv - vn_kv) * 10 > nom_voltage_tolerance * bus_vn_kv

\* the sorted nameplate voltages match the sorted bus voltages pairwise
SortedMatch(nameplate, buses) ==
    \A k \in 1..Len(buses) :
        Abs(Sorted(nameplate)[k] - Sorted(buses)[k]) * 10
            < nom_voltage_tolerance * Sorted(buses)[k]

\* transformer r of the table is classified as the tie-break rule demands
TieBreak(table, r, names, nameplate, buses, swapped_key) ==
    LET swapped == /\ \A k \in 1..Len(names) : Exceeds(nameplate[k], buses[k])
                   /\ SortedMatch(nameplate, buses)
    IN /\ (r \in VoltageList(table, swapped_key)) = swapped
       /\ \A k \in 1..Len(names) :
             (r \in VoltageList(table, names[k]))
                 = (~ swapped /\ Exceeds(nameplate[k], buses[k]))

\* C24: a transformer is listed as swapped exactly when every side exceeds the
\* tolerance and the sorted nameplate voltages match the sorted bus voltages
\* within the tolerance; a swapped transformer is in no per-side list, any
\* other one is in exactly the lists of its sides that exceed the tolerance.
C24_TerminalsSwappedTieBreak ==
    (pc = "alone_done" /\ solo = "nominal_voltages_dont_match") =>
        /\ \A r \in DOMAIN entry.trafo :
              LET e == entry.trafo[r]
              IN TieBreak("trafo", r, <<"hv_bus", "lv_bus">>,
                          <<e.vn_hv_kv, e.vn_lv_kv>>,
                          <<entry.bus[e.hv_bus].vn_kv, entry.bus[e.lv_bus].vn_kv>>,
                          "hv_lv_swapped")
        /\ \A r \in DOMAIN entry.trafo3w :
              LET e == entry.trafo3w[r]
              IN TieBreak("trafo3w", r, <<"hv_bus", "mv_bus", "lv_bus">>,
                          <<e.vn_hv_kv, e.vn_mv_kv, e.vn_lv_kv>>,
                          <<entry.bus[e.hv_bus].vn_kv, entry.bus[e.mv_bus].vn_kv,
                            entry.bus[e.lv_bus].vn_kv>>,
                          "connectors_swapped_3w")

\* the 2-winding transformer has its terminals swapped, the 3-winding one has
\* two sides off that no reordering explains
C24_Witness ==
    /\ pc = "alone_done"
    /\ solo = "nominal_voltages_dont_match"
    /\ VoltageList("trafo", "hv_lv_swapped") = {0}
    /\ VoltageList("trafo", "hv_bus") = {}
    /\ VoltageList("trafo3w", "connectors_swapped_3w") = {}
    /\ VoltageList("trafo3w", "hv_bus") = {0}
    /\ VoltageList("trafo3w", "mv_bus") = {0}
    /\ VoltageList("trafo3w", "lv_bus") = {}

\* C28: multiple_voltage_controlling_elements_per_bus reports every bus with
\* more than one generator and every bus with more than one external grid.
C28_MultipleControllersPerBus ==
    (pc = "alone_done"
     /\ solo = "multiple_voltage_controlling_elements_per_bus") =>
        LET v == Finding("multiple_voltage_controlling_elements_per_bus")
            reported == IF v.none THEN {}
                        ELSE UNION {v.value[k] : k \in DOMAIN v.value}
            several(t, b) ==
                Cardinality({r \in DOMAIN entry[t] : entry[t][r].bus = b}) > 1
        IN \A b \in DOMAIN entry.bus :
              /\ several("gen", b) => b \in reported
              /\ several("ext_grid", b) => b \in reported

\* C25: a check without an entry in the findings ran to completion and found
\* nothing: a recovery probe that met a structural solver error is never
\* absent from the findings without an entry in the errors.
C25_AbsentFindingMeansClean ==
    \A c \in RecoveryProbes :
        (/\ JustFinished(c)
         /\ c \notin DOMAIN diag_results
         /\ c \notin DOMAIN diag_errors) =>
            /\ raised = ""
            /\ \A k \in 1..Len(solves) : ~ Structural(solves[k])

\* the check that takes the step: the one about to be entered, or the one running
Running == IF i \in DOMAIN diag_functions THEN Name ELSE ""

\* C26: a static check makes no solver call and leaves every table of the
\* model unchanged; a step that writes to the model is a step of one of the
\* three recovery probes.
C26_StaticChecksReadOnly ==
    [][/\ (pc = "call" /\ Running \in StaticChecks) =>
              /\ net' = net
              /\ ncalls' = ncalls
              /\ solves' = <<>>
              /\ pc' \in {"call", "report", "alone_done"}
       /\ net' # net => Running \in RecoveryProbes]_vars

\* the last static check of a run in which the probes called the solver
C26_Witness ==
    /\ JustFinished("parallel_switches")
    /\ "parallel_switches" \in DOMAIN diag_results
    /\ ncalls > 0
    /\ solves = <<>>
    /\ net = entry

\* C27: the value diagnostic() returns holds the findings mapping and the
\* errors mapping of the run.
C27_ReturnsBothMappings ==
    pc = "done" =>
        /\ ~ returned.none
        /\ {"diag_results", "diag_errors"} \subseteq DOMAIN returned.value
        /\ returned.value["diag_results"] = diag_results
        /\ returned.value["diag_errors"] = diag_errors

\* the solver calls one invocation of a check may make at most
SolverCallsOf(c) ==
    CASE c = "implausible_impedance_values" -> 2
      [] c = "overload" -> 4
      [] c = "wrong_switch_configuration" -> 2
      [] c = "numba_comparison" -> 2
      [] OTHER -> 0

\* C29: if every solver call returns or raises, a run of diagnostic()
\* terminates; the checks are invoked one after the other in catalog order,
\* each exactly once, a check starting only when the loop is between checks;
\* each check keeps to its number of solver calls and a run makes at most 10.
C29_SequentialTerminatingPipeline ==
    /\ [](/\ Len(invoked) <= Len(diag_functions)
          /\ \A k \in 1..Len(invoked) : invoked[k] = diag_functions[k]
          /\ invoked # <<>> => Len(solves) <= SolverCallsOf(invoked[Len(invoked)])
          /\ ncalls <= 10
          /\ pc \in {"report", "done"} => invoked = diag_functions)
    /\ [][invoked' # invoked =>
              /\ pc = "call"
              /\ invoked' = Append(invoked, diag_functions[Len(invoked) + 1])]_vars
    /\ <>(pc = "done")

\* a finished run in which every probe used all of its solver calls
C29_Witness ==
    /\ pc = "done"
    /\ invoked = diag_functions
    /\ ncalls = 10

\* C30: the impedance probe takes a FloatingPointError of its first solve for
\* non-convergence (it applies the substitution and solves again, ending
\* earlier only if the substitution itself raises), but lets a
\* FloatingPointError of the re-solve leave the probe: the exception is
\* recorded and no loadflow_converges_with_switch_replacement entry is made.
C30_FloatingPointAsymmetry ==
    LET c == "implausible_impedance_values"
    IN /\ (pc = "impedance_run1" /\ solves[1] = "FloatingPointError") =>
              net = substitute(entry, implausible_elements(entry), 1, 0)
       /\ (JustFinished(c) /\ solves = <<"FloatingPointError">>) =>
              /\ raised = "AttributeError"
              /\ c \notin DOMAIN diag_results
       /\ (/\ JustFinished(c)
           /\ Len(solves) = 2
           /\ solves[2] = "FloatingPointError") =>
              /\ raised = "FloatingPointError"
              /\ c \in DOMAIN diag_errors
              /\ diag_errors[c] = "FloatingPointError"
              /\ c \notin DOMAIN diag_results

\* both solves of the impedance probe raised FloatingPointError
C30_Witness ==
    /\ JustFinished("implausible_impedance_values")
    /\ solves = <<"FloatingPointError", "FloatingPointError">>
    /\ net = substitute(entry, implausible_elements(entry), 1, 0)
    /\ net # entry
    /\ "implausible_impedance_values" \in DOMAIN diag_errors

====
